---- MODULE Spec2Model ----
(***************************************************************************)
(* Model of the invoice reimbursement engine:                              *)
(*   app/services/policy_service.py    category detection, amount          *)
(*                                     extraction, policy validation       *)
(*   app/services/analysis_service.py  the batch orchestrator              *)
(*   app/services/llm_service.py, embedding_service.py, pdf_service.py,    *)
(*   database.py                       the collaborators it calls, and the *)
(*                                     chat query over the stored records  *)
(*                                                                         *)
(* Texts are strings; an amount is an integer number of hundredths of a    *)
(* rupee (the amount patterns admit at most two fraction digits).          *)
(***************************************************************************)
EXTENDS Integers, Sequences, FiniteSets, TLC

VARIABLES
    \* ---- policy service, one call ----
    ppc,          \* "input" | "classified" | "analyzed" | "validated"
    text,         \* invoice_text
    category,     \* category returned by validate_expense_category / passed in
    amount,       \* amount returned by validate_expense_category / passed in
    result,       \* dict returned by validate_against_policy / analyze_invoice_with_policy
    \* ---- analyze_invoices, one call ----
    pc,           \* position in analyze_invoices
    inputs,       \* the arguments of the call and what the container holds
    invoices,     \* list of (filename, text) from extract_invoices_from_zip
    idx,          \* loop position, 1-based
    cur,          \* locals of the iteration in progress
    analysis_results,
    invoice_documents,
    stored,       \* batches handed to insert_invoices_batch, in call order
    failures,     \* per document: the step that raised, or "none"
    generated,    \* per document: the outcome of the generation call
    embedded,     \* per document: the outcomes of the model.encode calls
    response,     \* the AnalysisResponse returned, or NoResponse
    \* ---- vector_search / process_chat_query, one call ----
    cpc,          \* position in the call
    call,         \* the entry point and its arguments
    collection,   \* the stored records, in storage order
    query_embedding,
    search_results,
    calls,        \* the capability calls made, in order, with their outcomes
    chat_result,  \* what the call returned, or NoChatResult
    \* ---- calculate_similarity / find_most_similar / get_analysis_summary, one call ----
    fpc,          \* "idle" | "call" | "returned"
    args,         \* the function called and its arguments
    ret           \* the value returned, or NoOut

policyVars == <<ppc, text, category, amount, result>>
batchVars  == <<pc, inputs, invoices, idx, cur, analysis_results,
                invoice_documents, stored, failures, generated, embedded, response>>
chatVars == <<cpc, call, collection, query_embedding, search_results, calls, chat_result>>
utilVars == <<fpc, args, ret>>
vars == <<ppc, text, category, amount, result,
          pc, inputs, invoices, idx, cur, analysis_results,
          invoice_documents, stored, failures, generated, embedded, response,
          cpc, call, collection, query_embedding, search_results, calls, chat_result,
          fpc, args, ret>>

None == "None"

(***************************************************************************)
(* Bounds                                                                  *)
(***************************************************************************)
MaxPhrases == 2      \* phrases concatenated into one invoice text
MaxDocs == 2         \* documents extracted from one container
EmbeddingDim == 2    \* dimension of the embedding model (384 in production)
MaxRows == 11        \* records in the collection
MaxCandidates == 2   \* candidate embeddings passed to find_most_similar
MaxResults == 2      \* decisions passed to get_analysis_summary

(***************************************************************************)
(* Strings                                                                 *)
(***************************************************************************)
CharAt(s, i) == SubSeq(s, i, i)

UpperAlphabet == "ABCDEFGHIJKLMNOPQRSTUVWXYZ"
LowerAlphabet == "abcdefghijklmnopqrstuvwxyz"

\* the lower-case letter of each upper-case letter
LowerOf ==
    [c \in {CharAt(UpperAlphabet, i) : i \in 1..Len(UpperAlphabet)} |->
        CharAt(LowerAlphabet, CHOOSE i \in 1..Len(UpperAlphabet) : CharAt(UpperAlphabet, i) = c)]

LowerChar(c) == IF c \in DOMAIN LowerOf THEN LowerOf[c] ELSE c

RECURSIVE StrLower(_)
\* str.lower()
StrLower(s) ==
    IF s = "" THEN ""
    ELSE LowerChar(CharAt(s, 1)) \o StrLower(SubSeq(s, 2, Len(s)))

\* the Python test  word in s
Contains(s, word) ==
    \E i \in 1..(Len(s) - Len(word) + 1) : SubSeq(s, i, i + Len(word) - 1) = word

\* any(word in s for word in words)
AnyIn(words, s) == \E w \in words : Contains(s, w)

StartsAt(s, i, lit) ==
    /\ i + Len(lit) - 1 <= Len(s)
    /\ SubSeq(s, i, i + Len(lit) - 1) = lit

Digits == {"0", "1", "2", "3", "4", "5", "6", "7", "8", "9"}
Spaces == {" ", "\n", "\t"}

IsDigitAt(s, i) == i <= Len(s) /\ CharAt(s, i) \in Digits

RECURSIVE SkipClass(_, _, _)
\* position after the longest run of characters of cls starting at i  (cls*)
SkipClass(s, i, cls) ==
    IF i <= Len(s) /\ CharAt(s, i) \in cls THEN SkipClass(s, i + 1, cls) ELSE i

\* position after an optional literal at i  (lit?)
SkipOptional(s, i, lit) ==
    IF lit # "" /\ StartsAt(s, i, lit) THEN i + Len(lit) ELSE i

RECURSIVE SkipThousands(_, _)
\* (?:,\d{3})*
SkipThousands(s, i) ==
    IF /\ i <= Len(s) /\ CharAt(s, i) = ","
       /\ IsDigitAt(s, i + 1) /\ IsDigitAt(s, i + 2) /\ IsDigitAt(s, i + 3)
    THEN SkipThousands(s, i + 4)
    ELSE i

\* (?:\.\d{2})?
SkipFraction(s, i) ==
    IF /\ i <= Len(s) /\ CharAt(s, i) = "."
       /\ IsDigitAt(s, i + 1) /\ IsDigitAt(s, i + 2)
    THEN i + 3
    ELSE i

\* the group (\d+(?:,\d{3})*(?:\.\d{2})?) at i: the position after it, 0 if no digit at i
NumberEnd(s, i) ==
    IF ~IsDigitAt(s, i) THEN 0
    ELSE SkipFraction(s, SkipThousands(s, SkipClass(s, i, Digits)))

\* str.strip(): leading and trailing whitespace removed
Whitespace == {" ", "\n", "\t", "\r"}

RECURSIVE StripLeft(_)
StripLeft(s) ==
    IF Len(s) > 0 /\ CharAt(s, 1) \in Whitespace
    THEN StripLeft(SubSeq(s, 2, Len(s))) ELSE s

RECURSIVE StripRight(_)
StripRight(s) ==
    IF Len(s) > 0 /\ CharAt(s, Len(s)) \in Whitespace
    THEN StripRight(SubSeq(s, 1, Len(s) - 1)) ELSE s

strip(s) == StripRight(StripLeft(s))

(***************************************************************************)
(* policy_service.py: amount extraction                                    *)
(***************************************************************************)
Scale == 100         \* hundredths: the patterns admit two fraction digits

\* The five patterns, each of the shape  lit opt1? cls* opt2? \s* (number)
amount_patterns == <<
    [lit |-> "₹",      opt1 |-> "",  cls |-> {},                opt2 |-> ""],
    [lit |-> "rs",     opt1 |-> ".", cls |-> {},                opt2 |-> ""],
    [lit |-> "rupee",  opt1 |-> "s", cls |-> {},                opt2 |-> ""],
    [lit |-> "amount", opt1 |-> "",  cls |-> {":"} \cup Spaces, opt2 |-> "₹"],
    [lit |-> "total",  opt1 |-> "",  cls |-> {":"} \cup Spaces, opt2 |-> "₹"] >>

\* one attempt of re.match at position i: the group's span, ok = FALSE if none
MatchAt(s, i, p) ==
    IF ~StartsAt(s, i, p.lit) THEN [ok |-> FALSE, from |-> 0, to |-> 0]
    ELSE LET a == i + Len(p.lit)
             b == SkipOptional(s, a, p.opt1)
             c == SkipClass(s, b, p.cls)
             d == SkipOptional(s, c, p.opt2)
             e == SkipClass(s, d, Spaces)
             f == NumberEnd(s, e)
         IN  [ok |-> f # 0, from |-> e, to |-> f]

RECURSIVE FindAllFrom(_, _, _)
FindAllFrom(s, i, p) ==
    IF i > Len(s) THEN << >>
    ELSE LET m == MatchAt(s, i, p)
         IN  IF m.ok
             THEN <<SubSeq(s, m.from, m.to - 1)>> \o FindAllFrom(s, m.to, p)
             ELSE FindAllFrom(s, i + 1, p)

\* re.findall(pattern, s): the groups of the non-overlapping matches, left to right
FindAll(p, s) == FindAllFrom(s, 1, p)

RECURSIVE StrRemove(_, _)
\* s.replace(ch, '')
StrRemove(s, ch) ==
    IF s = "" THEN ""
    ELSE (IF CharAt(s, 1) = ch THEN "" ELSE CharAt(s, 1)) \o StrRemove(SubSeq(s, 2, Len(s)), ch)

DigitValue(c) == CHOOSE n \in 0..9 : CharAt("0123456789", n + 1) = c

RECURSIVE NatOf(_)
NatOf(s) == IF s = "" THEN 0
            ELSE 10 * NatOf(SubSeq(s, 1, Len(s) - 1)) + DigitValue(CharAt(s, Len(s)))

DotIndex(s) == IF Contains(s, ".") THEN CHOOSE i \in 1..Len(s) : CharAt(s, i) = "." ELSE 0

\* float(s) does not raise ValueError: digits with at most one point
FloatOk(s) ==
    /\ \E i \in 1..Len(s) : CharAt(s, i) \in Digits
    /\ \A i \in 1..Len(s) : CharAt(s, i) \in Digits \cup {"."}
    /\ Cardinality({i \in 1..Len(s) : CharAt(s, i) = "."}) <= 1

\* float(s), in hundredths, for s with no or two fraction digits
ParseFloat(s) ==
    LET d == DotIndex(s)
    IN  IF d = 0 THEN Scale * NatOf(s)
        ELSE Scale * NatOf(SubSeq(s, 1, d - 1)) + NatOf(SubSeq(s, d + 1, Len(s)))

RECURSIVE AmountFrom(_, _)
\* the loop over amount_patterns from pattern k on; 0 when it ends without a break
AmountFrom(invoice_lower, k) ==
    IF k > Len(amount_patterns) THEN 0
    ELSE LET matches == FindAll(amount_patterns[k], invoice_lower)
         IN  IF matches # << >>
             THEN LET amount_str == StrRemove(matches[1], ",")
                  IN  IF FloatOk(amount_str) THEN ParseFloat(amount_str)
                      ELSE AmountFrom(invoice_lower, k + 1)
             ELSE AmountFrom(invoice_lower, k + 1)

RECURSIVE AmountFromLast(_, _)
\* the patterns tried from the last to the first
AmountFromLast(invoice_lower, k) ==
    IF k < 1 THEN 0
    ELSE LET matches == FindAll(amount_patterns[k], invoice_lower)
         IN  IF matches # << >> /\ FloatOk(StrRemove(matches[1], ","))
             THEN ParseFloat(StrRemove(matches[1], ","))
             ELSE AmountFromLast(invoice_lower, k - 1)

ExtractAmountReversed(invoice_lower) == AmountFromLast(invoice_lower, Len(amount_patterns))

ExtractAmount(invoice_lower) == AmountFrom(invoice_lower, 1)

(***************************************************************************)
(* policy_service.py: category detection                                   *)
(***************************************************************************)
FoodWords == {"food", "meal", "restaurant", "cafe", "dining", "lunch", "dinner", "breakfast"}
AccommodationWords == {"hotel", "accommodation", "lodging", "stay", "room"}
CabWords == {"cab", "taxi", "uber", "ola"}
DailyCabWords == {"daily", "office", "commute", "regular"}
BusinessTravelWords == {"client", "meeting", "business", "trip", "visit"}
TransportWords == {"transport", "travel", "flight", "train", "bus"}
AlcoholWords == {"alcohol", "beer", "wine", "liquor"}

\* the business context tested before the daily one
CabCategoryBusinessFirst(invoice_lower) ==
    IF AnyIn(BusinessTravelWords, invoice_lower) THEN "travel_expenses"
    ELSE IF AnyIn(DailyCabWords, invoice_lower) THEN "daily_cab"
    ELSE "cab"

\* the branch taken once a cab word is found
CabCategory(invoice_lower) ==
    IF AnyIn(DailyCabWords, invoice_lower) THEN "daily_cab"
    ELSE IF AnyIn(BusinessTravelWords, invoice_lower) THEN "travel_expenses"
    ELSE "cab"

\* the accommodation group tested before the food group
DetectCategoryAccommodationFirst(invoice_lower) ==
    IF AnyIn(AccommodationWords, invoice_lower) THEN "accommodation"
    ELSE IF AnyIn(FoodWords, invoice_lower) THEN "food_beverages"
    ELSE IF AnyIn(CabWords, invoice_lower) THEN CabCategory(invoice_lower)
    ELSE "travel_expenses"

DetectCategory(invoice_lower) ==
    IF AnyIn(FoodWords, invoice_lower) THEN "food_beverages"
    ELSE IF AnyIn(AccommodationWords, invoice_lower) THEN "accommodation"
    ELSE IF AnyIn(CabWords, invoice_lower) THEN CabCategory(invoice_lower)
    ELSE IF AnyIn(TransportWords, invoice_lower) THEN "travel_expenses"
    ELSE "travel_expenses"

validate_expense_category(invoice_text) ==
    LET invoice_lower == StrLower(invoice_text)
    IN  [category |-> DetectCategory(invoice_lower), amount |-> ExtractAmount(invoice_lower)]

(***************************************************************************)
(* policy_service.py: the rule set and the validator                       *)
(* An Optional value is a sequence: << >> for None, <<v>> for v.           *)
(***************************************************************************)
policy_rules == [
    food_beverages  |-> [category |-> "Food and Beverages",
                         description |-> "Meals during work travel or business meetings",
                         max_amount |-> 200 * Scale,
                         policy_section |-> "5.1 Food and Beverages"],
    travel_expenses |-> [category |-> "Travel Expenses",
                         description |-> "Work-related travel expenses",
                         max_amount |-> 2000 * Scale,
                         policy_section |-> "5.2 Travel Expenses"],
    cab             |-> [category |-> "Cab Expenses",
                         description |-> "Regular cab/taxi expenses for work",
                         max_amount |-> 200 * Scale,
                         policy_section |-> "5.2 Travel Expenses"],
    daily_cab       |-> [category |-> "Daily Office Cab",
                         description |-> "Daily office cab allowance",
                         max_amount |-> 150 * Scale,
                         policy_section |-> "5.2 Travel Expenses"],
    accommodation   |-> [category |-> "Accommodation",
                         description |-> "Hotel stays for overnight business travel",
                         max_amount |-> 50 * Scale,
                         policy_section |-> "5.3 Accommodation"] ]

Categories == DOMAIN policy_rules

\* the limit left out of the f-string
ReasonWithoutLimit(template, amt, limit, label) ==
    [template |-> template, amount |-> amt, limit |-> << >>, label |-> label, error |-> ""]

\* an f-string: the template and the values interpolated into it
Reason(template, amt, limit, label) ==
    [template |-> template, amount |-> amt, limit |-> limit, label |-> label, error |-> ""]

PlainReason(template) == Reason(template, << >>, << >>, "")

\* an f-string that interpolates str(e)
ErrorReason(template, e) ==
    [template |-> template, amount |-> << >>, limit |-> << >>, label |-> "", error |-> e]

\* the claimed amount passed through uncapped
ReimbursedUncapped(amt, rule) == amt

\* "reimbursed_amount" of the branch  amount > rule.max_amount
ReimbursedOverLimit(amt, rule) == rule.max_amount

\* the comparison made inclusive
ExceedsLimitInclusive(amt, rule) == amt >= rule.max_amount

\* the branch  amount > rule.max_amount
ExceedsLimit(amt, rule) == amt > rule.max_amount

\* 'beer' missing from the keyword list
RestrictionWithoutBeer(cat, invoice_lower) ==
    cat = "food_beverages" /\ AnyIn(AlcoholWords \ {"beer"}, invoice_lower)

\* the branch  category == "food_beverages" and any alcohol word in the text
RestrictionApplies(cat, invoice_lower) ==
    cat = "food_beverages" /\ AnyIn(AlcoholWords, invoice_lower)

validate_against_policy(cat, amt, invoice_text) ==
    IF cat \notin Categories
    THEN [status |-> "Declined",
          reason |-> PlainReason("Unknown expense category: {category}"),
          policy_reference |-> "Policy does not cover this category",
          amount |-> <<amt>>, reimbursed_amount |-> <<0>>]
    ELSE LET rule == policy_rules[cat]
             invoice_lower == StrLower(invoice_text)
         IN  IF RestrictionApplies(cat, invoice_lower)
             THEN [status |-> "Declined",
                   reason |-> PlainReason("Alcoholic beverages are not reimbursable according to policy"),
                   policy_reference |-> rule.policy_section,
                   amount |-> <<amt>>, reimbursed_amount |-> <<0>>]
             ELSE IF ExceedsLimit(amt, rule)
             THEN [status |-> "Partially Reimbursed",
                   reason |-> Reason("Amount ({amount}) exceeds policy limit of {max_amount} for {category}",
                                     <<amt>>, <<rule.max_amount>>, rule.category),
                   policy_reference |-> rule.policy_section,
                   amount |-> <<amt>>, reimbursed_amount |-> <<ReimbursedOverLimit(amt, rule)>>]
             ELSE IF amt <= rule.max_amount
             THEN [status |-> "Fully Reimbursed",
                   reason |-> Reason("Amount ({amount}) is within policy limit of {max_amount} for {category}",
                                     <<amt>>, <<rule.max_amount>>, rule.category),
                   policy_reference |-> rule.policy_section,
                   amount |-> <<amt>>, reimbursed_amount |-> <<amt>>]
             ELSE [status |-> "Declined",
                   reason |-> PlainReason("Unable to determine reimbursement status"),
                   policy_reference |-> rule.policy_section,
                   amount |-> <<amt>>, reimbursed_amount |-> <<0>>]

\* the try block never raises: the text is a string and every category returned by
\* validate_expense_category is a key of policy_rules
analyze_invoice_with_policy(invoice_text) ==
    LET ca == validate_expense_category(invoice_text)
        validation_result == validate_against_policy(ca.category, ca.amount, invoice_text)
    IN  IF ca.category \in Categories
        THEN [status |-> validation_result.status,
              reason |-> validation_result.reason,
              policy_reference |-> validation_result.policy_reference,
              amount |-> validation_result.amount,
              reimbursed_amount |-> validation_result.reimbursed_amount,
              category |-> <<ca.category>>,
              policy_rule |-> <<policy_rules[ca.category].description>>]
        ELSE [status |-> "Declined",
              reason |-> ErrorReason("Policy analysis failed: {e}", "KeyError"),
              policy_reference |-> "Error in policy analysis",
              amount |-> <<0>>, reimbursed_amount |-> <<0>>,
              category |-> <<"unknown">>,
              policy_rule |-> << >>]


(***************************************************************************)
(* One call of the policy service on one invoice text                      *)
(***************************************************************************)
Vocabulary == {
    "Restaurant Bill\nBusiness lunch\n",
    "Hotel stay for business trip - ",
    "Taxi fare client meeting - ",
    "Daily office cab fare - ",
    "Uber ride ",
    "Flight ticket ",
    "Beer and food at pub - ",
    "₹180 ",
    "Total: ₹2500",
    "Rs. 1,250.50 ",
    "rupees 45 ",
    "Amount: 120 ",
    "Total: 2,100 " }

RECURSIVE TextsOf(_)
\* the texts made of at most n phrases
TextsOf(n) ==
    IF n = 0 THEN {""}
    ELSE LET shorter == TextsOf(n - 1)
         IN  shorter \cup {t \o p : t \in shorter, p \in Vocabulary}

Texts == TextsOf(MaxPhrases)

CategoryInputs == Categories \cup {"entertainment"}

\* amounts around the limit of the category passed in
AmountInputs(cat) ==
    IF cat \in Categories
    THEN LET m == policy_rules[cat].max_amount IN {0, m, m + 1}
    ELSE {0}

NoResult == [status |-> None]

PolicyIdle ==
    /\ ppc = "idle" /\ text = "" /\ category = None /\ amount = 0 /\ result = NoResult

PolicyInit ==
    /\ ppc = "input"
    /\ text \in Texts
    /\ category = None
    /\ amount = 0
    /\ result = NoResult

\* category, amount = validate_expense_category(text)
Classify ==
    /\ ppc = "input"
    /\ LET ca == validate_expense_category(text)
       IN  category' = ca.category /\ amount' = ca.amount
    /\ ppc' = "classified"
    /\ UNCHANGED <<text, result>>

\* validate_against_policy(c, a, text) for a category and an amount of the caller's choice
Validate ==
    /\ ppc = "input"
    /\ \E c \in CategoryInputs : \E a \in AmountInputs(c) :
          /\ category' = c
          /\ amount' = a
          /\ result' = validate_against_policy(c, a, text)
    /\ ppc' = "validated"
    /\ UNCHANGED text

\* analyze_invoice_with_policy(text, invoice_id)
AnalyzeWithPolicy ==
    /\ ppc = "input"
    /\ LET ca == validate_expense_category(text)
       IN  category' = ca.category /\ amount' = ca.amount
    /\ result' = analyze_invoice_with_policy(text)
    /\ ppc' = "analyzed"
    /\ UNCHANGED text


(***************************************************************************)
(* models.py                                                               *)
(***************************************************************************)
ReimbursementStatus == {"Fully Reimbursed", "Partially Reimbursed", "Declined"}

\* dict.get(key) for an optional field: None (<< >>) when the key is missing
DictGet(d, key) == IF key \in DOMAIN d THEN d[key] ELSE << >>

\* the status accepted whatever its value
InvoiceAnalysisUnvalidated(d) == "status" \in DOMAIN d

\* analysis_result["status"] does not raise and pydantic accepts the dict's values
\* for InvoiceAnalysis
InvoiceAnalysisValid(d) == "status" \in DOMAIN d /\ d.status \in ReimbursementStatus

InvoiceAnalysis(invoice_id, d) ==
    [invoice_id |-> invoice_id,
     status |-> d.status,
     reason |-> d.reason,
     policy_reference |-> d.policy_reference,
     amount |-> DictGet(d, "amount"),
     reimbursed_amount |-> DictGet(d, "reimbursed_amount"),
     category |-> DictGet(d, "category"),
     policy_rule |-> DictGet(d, "policy_rule")]

InvoiceDocument(invoice_id, employee_name, content, invoice_analysis, embedding, metadata) ==
    [invoice_id |-> invoice_id,
     employee_name |-> employee_name,
     content |-> content,
     analysis_result |-> invoice_analysis,
     embedding |-> embedding,
     metadata |-> metadata]

AnalysisResponse(status, results, total_invoices) ==
    [status |-> status, results |-> results, total_invoices |-> total_invoices]

(***************************************************************************)
(* llm_service.py: classification by the generation capability             *)
(* A generation outcome is [kind, body]: the call raised, or returned text *)
(* that is not JSON, or returned a JSON object (body: the parsed dict), or  *)
(* returned JSON that is not an object: an array (body: its elements) or a *)
(* number.                                                                 *)
(***************************************************************************)
_get_fallback_analysis ==
    [status |-> "Declined",
     reason |-> PlainReason("Unable to analyze invoice due to processing error"),
     policy_reference |-> "Error in analysis",
     amount |-> << >>,
     reimbursed_amount |-> << >>]

required_fields == <<"status", "reason", "policy_reference">>

NotSpecified(field) ==
    IF field = "reason" THEN PlainReason("Not specified") ELSE "Not specified"

\* the loop that fills the missing required fields of a parsed object
FillRequired(d) ==
    [k \in DOMAIN d \cup {required_fields[i] : i \in 1..Len(required_fields)} |->
        IF k \in DOMAIN d THEN d[k] ELSE NotSpecified(k)]

\* field in result, for a parsed value that is not a dict: membership in an array,
\* a TypeError for a number
FieldIn(field, out) ==
    out.kind = "array" /\ \E i \in 1..Len(out.body) : out.body[i] = field

\* the loop over required_fields raises a TypeError: at  field not in result  for a
\* number, at  result[field] = ...  for an array that lacks the field
ParseRaises(out) ==
    out.kind \in {"array", "number"} /\ \E i \in 1..Len(required_fields) : ~FieldIn(required_fields[i], out)

\* the value returned when the loop over required_fields does not raise: the dict
\* with its missing fields filled, the parsed value as it is when it is not a dict,
\* the fallback for a JSONDecodeError
_parse_analysis_response(out) ==
    IF out.kind = "object" THEN FillRequired(out.body)
    ELSE IF out.kind \in {"array", "number"} THEN [json |-> out.kind, value |-> out.body]
    ELSE _get_fallback_analysis

\* except Exception: the capability raised, or _parse_analysis_response did
analyze_invoice(out) ==
    IF out.kind = "raises" \/ ParseRaises(out) THEN _get_fallback_analysis
    ELSE _parse_analysis_response(out)

GenerationOutcomes == {
    [kind |-> "raises", body |-> << >>],
    [kind |-> "text",   body |-> << >>],
    [kind |-> "object", body |-> [status |-> "Fully Reimbursed",
                                  reason |-> PlainReason("covered"),
                                  policy_reference |-> "Section 2",
                                  amount |-> <<100 * Scale>>,
                                  reimbursed_amount |-> <<100 * Scale>>]],
    [kind |-> "object", body |-> [status |-> "Partially Reimbursed",
                                  amount |-> <<300 * Scale>>]],
    [kind |-> "object", body |-> [reason |-> PlainReason("unclear"),
                                  policy_reference |-> "Section 3"]],
    [kind |-> "object", body |-> [status |-> "Approved",
                                  reason |-> PlainReason("covered"),
                                  policy_reference |-> "Section 2"]],
    [kind |-> "array",  body |-> <<"status", "reason", "policy_reference">>],
    [kind |-> "number", body |-> << >>] }

(***************************************************************************)
(* embedding_service.py                                                    *)
(* The capability is model.encode; an outcome says whether it raises.  The *)
(* dimension accessor of the loaded model is a lookup and returns D.       *)
(***************************************************************************)
get_sentence_embedding_dimension == EmbeddingDim

ZeroVector == [i \in 1..get_sentence_embedding_dimension |-> 0]
EncodedVector == [i \in 1..EmbeddingDim |-> 1]

EmbeddingOutcomes == [encode_raises : BOOLEAN]

\* the except handler leaving the exception to the caller
generate_embeddingReraises(t, o) ==
    IF strip(t) = ""
    THEN [raised |-> FALSE, value |-> ZeroVector, encode_calls |-> << >>]
    ELSE IF ~o.encode_raises
    THEN [raised |-> FALSE, value |-> EncodedVector, encode_calls |-> <<o>>]
    ELSE [raised |-> TRUE, value |-> << >>, encode_calls |-> <<o>>]

\* the blank test left out: model.encode is called on every text
generate_embeddingEncodesBlank(t, o) ==
    IF ~o.encode_raises
    THEN [raised |-> FALSE, value |-> EncodedVector, encode_calls |-> <<o>>]
    ELSE [raised |-> FALSE, value |-> ZeroVector, encode_calls |-> <<o>>]

\* generate_embedding: the vector returned and the model.encode calls made
generate_embedding(t, o) ==
    IF strip(t) = ""
    THEN [raised |-> FALSE, value |-> ZeroVector, encode_calls |-> << >>]
    ELSE IF ~o.encode_raises
    THEN [raised |-> FALSE, value |-> EncodedVector, encode_calls |-> <<o>>]
    ELSE [raised |-> FALSE, value |-> ZeroVector, encode_calls |-> <<o>>]

\* the text embedded for a document: fixed labels around the content and the
\* decision's status, reason and policy reference
CombinedText(invoice_content, analysis_result) ==
    "\n Invoice Content: " \o invoice_content
        \o "\n Analysis Status: " \o analysis_result.status
        \o "\n Reason: \n Policy Reference: \n "

\* generate_invoice_embedding: the combined text, then the content alone
generate_invoice_embedding(invoice_content, analysis_result, o1, o2) ==
    LET r1 == generate_embedding(CombinedText(invoice_content, analysis_result), o1)
        r2 == generate_embedding(invoice_content, o2)
    IN  IF ~r1.raised THEN r1
        ELSE [r2 EXCEPT !.encode_calls = r1.encode_calls \o r2.encode_calls]


(***************************************************************************)
(* analysis_service.py: analyze_invoices                                   *)
(***************************************************************************)
\* the invoice texts a container may hold
Documents == {
    "Taxi fare client meeting - Total: ₹2500",
    "Beer and food at pub - Amount: ₹150",
    "Hotel stay for business trip - " }

\* analyze_invoice_with_policy on each of them, evaluated once
PolicyAnalysis == [t \in Documents |-> analyze_invoice_with_policy(t)]

\* generate_invoice_embedding on each of them, evaluated once
InvoiceEmbedding ==
    [x \in Documents \X ReimbursementStatus \X EmbeddingOutcomes \X EmbeddingOutcomes |->
        generate_invoice_embedding(x[1], [status |-> x[2]], x[3], x[4])]
    @@ << >>      \* @@ builds the table once

SeqsUpTo(S, n) == UNION {[1..k -> S] : k \in 0..n}

\* policy_bytes / policy_filename as the custom-policy branch sees them
PolicyInputs == {"missing", "invalid", "unreadable", "blank", "ok"}

Inputs ==
    [zip_valid : BOOLEAN,
     use_integrated_policy : {TRUE},
     policy : {"missing"},
     employee_name_ok : BOOLEAN]
    \cup
    [zip_valid : BOOLEAN,
     use_integrated_policy : {FALSE},
     policy : PolicyInputs,
     employee_name_ok : BOOLEAN]

NoResponse == AnalysisResponse(None, << >>, 0)
NoLocals == [analysis_result |-> NoResult, embedding |-> << >>]

BatchIdle ==
    /\ pc = "idle"
    /\ inputs = [zip_valid |-> FALSE, use_integrated_policy |-> TRUE,
                 policy |-> "missing", employee_name_ok |-> FALSE]
    /\ invoices = << >> /\ idx = 0 /\ cur = NoLocals
    /\ analysis_results = << >> /\ invoice_documents = << >>
    /\ stored = << >> /\ failures = << >> /\ generated = << >> /\ embedded = << >>
    /\ response = NoResponse

BatchInit ==
    /\ pc = "start"
    /\ inputs \in Inputs
    /\ invoices = << >> /\ idx = 0 /\ cur = NoLocals
    /\ analysis_results = << >> /\ invoice_documents = << >>
    /\ stored = << >> /\ failures = << >> /\ generated = << >> /\ embedded = << >>
    /\ response = NoResponse

\* the outer except re-raising
ReturnErrorReraises ==
    /\ pc' = "raised"
    /\ UNCHANGED response

\* the outer except: the error response
ReturnError ==
    /\ response' = AnalysisResponse("error", << >>, 0)
    /\ pc' = "done"

\* the custom-policy checks left out
InputErrorWithoutPolicyChecks(in) == ~in.zip_valid

\* a ValueError is raised before the invoices are extracted
InputError(in) ==
    \/ ~in.zip_valid
    \/ /\ ~in.use_integrated_policy
       /\ in.policy # "ok"

ValidateInputs ==
    /\ pc = "start"
    /\ IF InputError(inputs)
       THEN /\ ReturnError
            /\ UNCHANGED <<inputs, invoices, idx, cur, analysis_results,
                           invoice_documents, stored, failures, generated, embedded>>
       ELSE /\ pc' = "extract"
            /\ UNCHANGED <<inputs, invoices, idx, cur, analysis_results,
                           invoice_documents, stored, failures, generated, embedded, response>>

\* extract_invoices_from_zip raises, or returns the (filename, text) list;
\* a document is named by its position in the list
ExtractInvoices ==
    /\ pc = "extract"
    /\ \E raises \in BOOLEAN : \E extracted \in SeqsUpTo(Documents, MaxDocs) :
          IF raises \/ extracted = << >>
          THEN /\ ReturnError
               /\ UNCHANGED <<inputs, invoices, idx, cur, analysis_results,
                              invoice_documents, stored, failures, generated, embedded>>
          ELSE /\ invoices' = extracted
               /\ idx' = 1
               /\ pc' = "classify"
               /\ UNCHANGED <<inputs, cur, analysis_results,
                              invoice_documents, stored, failures, generated, embedded, response>>

fallback_analysis(invoice_id, e) ==
    [invoice_id |-> invoice_id,
     status |-> "Declined",
     reason |-> ErrorReason("Analysis failed: {e}", e),
     policy_reference |-> "Error in processing",
     amount |-> << >>,
     reimbursed_amount |-> << >>,
     category |-> << >>,
     policy_rule |-> << >>]

\* the position after this iteration
NextPosition == IF idx = Len(invoices) THEN "store" ELSE "classify"

\* the document's exception left to the outer except
FailDocumentAbortsBatch(step, e) ==
    /\ response' = AnalysisResponse("error", << >>, 0)
    /\ pc' = "done"
    /\ UNCHANGED <<idx, cur, analysis_results, invoice_documents, failures>>

\* the inner except: the document's iteration ends with the fallback decision
FailDocument(step, e) ==
    /\ analysis_results' = Append(analysis_results, fallback_analysis(idx, e))
    /\ failures' = Append(failures, step)
    /\ cur' = NoLocals
    /\ idx' = idx + 1
    /\ pc' = NextPosition
    /\ UNCHANGED <<invoice_documents, response>>

\* the generation capability is called in custom-policy mode only
NotCalled == [kind |-> "not called", body |-> << >>]
GenerationCalls(in) == IF in.use_integrated_policy THEN {NotCalled} ELSE GenerationOutcomes

\* classification, InvoiceAnalysis(...) and analysis_results.append
ClassifyDocument ==
    /\ pc = "classify"
    /\ \E out \in GenerationCalls(inputs) :
          LET analysis_result ==
                  IF inputs.use_integrated_policy
                  THEN PolicyAnalysis[invoices[idx]]
                  ELSE analyze_invoice(out)
          IN  /\ generated' = Append(generated, out)
              /\ IF InvoiceAnalysisValid(analysis_result)
                 THEN /\ analysis_results' =
                             Append(analysis_results, InvoiceAnalysis(idx, analysis_result))
                      /\ cur' = [cur EXCEPT !.analysis_result = analysis_result]
                      /\ pc' = "embed"
                      /\ UNCHANGED <<idx, invoice_documents, failures, response>>
                 ELSE FailDocument("classification",
                                   IF "status" \in DOMAIN analysis_result
                                   THEN "ValidationError: status"
                                   ELSE "TypeError: list indices must be integers")
    /\ UNCHANGED <<inputs, invoices, stored, embedded>>

\* embedding_service.generate_invoice_embedding(invoice_text, analysis_result)
EmbedDocument ==
    /\ pc = "embed"
    /\ \E o1 \in EmbeddingOutcomes : \E o2 \in EmbeddingOutcomes :
          \E r \in {InvoiceEmbedding[<<invoices[idx], cur.analysis_result.status, o1, o2>>]} :
              /\ embedded' = embedded \o [k \in 1..Len(r.encode_calls) |->
                                             [invoice_id |-> idx,
                                              encode_raises |-> r.encode_calls[k].encode_raises]]
              /\ IF r.raised
                 THEN FailDocument("embedding", "embedding model unavailable")
                 ELSE /\ cur' = [cur EXCEPT !.embedding = r.value]
                      /\ pc' = "record"
                      /\ UNCHANGED <<idx, analysis_results, invoice_documents,
                                     failures, response>>
    /\ UNCHANGED <<inputs, invoices, stored, generated>>

Metadata(in, analysis_result) ==
    [policy_type |-> IF in.use_integrated_policy THEN "integrated" ELSE "uploaded",
     category |-> IF "category" \in DOMAIN analysis_result
                  THEN analysis_result.category ELSE <<"unknown">>,
     policy_rule |-> IF "policy_rule" \in DOMAIN analysis_result
                     THEN analysis_result.policy_rule ELSE <<"unknown">>]

\* InvoiceDocument(...) and invoice_documents.append(invoice_doc.dict())
BuildRecord ==
    /\ pc = "record"
    /\ IF inputs.employee_name_ok
       THEN /\ invoice_documents' =
                   Append(invoice_documents,
                          InvoiceDocument(idx, "employee", invoices[idx],
                                          InvoiceAnalysis(idx, cur.analysis_result),
                                          cur.embedding,
                                          Metadata(inputs, cur.analysis_result)))
            /\ failures' = Append(failures, "none")
            /\ cur' = NoLocals
            /\ idx' = idx + 1
            /\ pc' = NextPosition
            /\ UNCHANGED <<analysis_results, response>>
       ELSE FailDocument("record", "ValidationError: employee_name")
    /\ UNCHANGED <<inputs, invoices, stored, generated, embedded>>

\* db_manager.insert_invoices_batch: insert_many raised or not
insert_invoices_batch(docs, insert_ok) == [raised |-> ~insert_ok]

\* the storage failure swallowed
ResponseIgnoringStoreFailure(store_raised) ==
    AnalysisResponse("success", analysis_results, Len(invoices))

\* the response once the loop has ended and the storage call, if any, has returned
ResponseAfterStore(store_raised) ==
    IF store_raised THEN AnalysisResponse("error", << >>, 0)
    ELSE AnalysisResponse("success", analysis_results, Len(invoices))

\* if invoice_documents: await insert_invoices_batch(...); then the response
StoreAndReturn ==
    /\ pc = "store"
    /\ IF invoice_documents = << >>
       THEN /\ response' = ResponseAfterStore(FALSE)
            /\ UNCHANGED stored
       ELSE \E insert_ok \in BOOLEAN :
               /\ stored' = Append(stored, [docs |-> invoice_documents, ok |-> insert_ok])
               /\ response' = ResponseAfterStore(
                                 insert_invoices_batch(invoice_documents, insert_ok).raised)
    /\ pc' = "done"
    /\ UNCHANGED <<inputs, invoices, idx, cur, analysis_results,
                   invoice_documents, failures, generated, embedded>>

(***************************************************************************)
(* database.py: the collection, vector_search and text_search              *)
(* A score is an integer number of hundredths.                             *)
(***************************************************************************)
TextSearchLimit == 10    \* text_search(filters, limit = 10)
ChatLimit == 10          \* process_chat_query: vector_search(..., limit = 10)
TestLimit == 5           \* test_vector_search: vector_search(..., limit = 5)

Min(a, b) == IF a <= b THEN a ELSE b
Take(seq, n) == SubSeq(seq, 1, Min(n, Len(seq)))
Reverse(seq) == [i \in 1..Len(seq) |-> seq[Len(seq) - i + 1]]

RECURSIVE Repeat(_, _)
Repeat(s, n) == IF n = 0 THEN "" ELSE s \o Repeat(s, n - 1)

\* d.get(key, default)
get(d, key, default) == IF key \in DOMAIN d THEN d[key] ELSE default

\* what a stored record holds apart from its position: InvoiceDocument.dict()
RecordKinds == <<
    [employee_name |-> "alice",
     content |-> "Taxi fare client meeting - Total: ₹2500",
     status |-> "Partially Reimbursed"],
    [employee_name |-> "bob",
     content |-> Repeat("Hotel stay for business trip - ", 17),
     status |-> "Declined"],
    [employee_name |-> "alice",
     content |-> "Restaurant Bill ₹180",
     status |-> "Fully Reimbursed"] >>

StoredRecord(i, kind) ==
    [invoice_id |-> i,
     employee_name |-> kind.employee_name,
     content |-> kind.content,
     analysis_result |-> [status |-> kind.status,
                          reason |-> "reason " \o kind.status,
                          policy_reference |-> "IAI Solution Policy"],
     embedding |-> EncodedVector,
     created_at |-> i]

Collections ==
    { [i \in 1..n |-> StoredRecord(i, RecordKinds[((i + off) % 3) + 1])] :
          n \in 0..MaxRows, off \in 0..2 }

\* filters: Optional[Dict]; << >> is None, <<d>> is the dict d
EmptyFilter == [k \in {} |-> ""]
FilterInputs == { << >>, <<EmptyFilter>>, <<[employee_name |-> "alice"]>> }

\* 'if filters:' - neither None nor the empty dict
Truthy(filters) == filters # << >> /\ DOMAIN filters[1] # {}

\* 'filters or {}'
OrEmpty(filters) == IF Truthy(filters) THEN filters[1] ELSE EmptyFilter

\* the equality filter of $match and of find(filters)
Matches(row, f) == \A k \in DOMAIN f : k \in DOMAIN row /\ row[k] = f[k]
FilterRows(rows, f) == SelectSeq(rows, LAMBDA row : Matches(row, f))

\* the $search stage: the capability raises, or ranks at most k records;
\* an outcome is [raises, n, reversed, top]
Scores == {95, 60}
SearchOutcomes ==
    [raises : {TRUE}, n : {0}, reversed : {FALSE}, top : {95}]
    \cup [raises : {FALSE}, n : 0..MaxRows, reversed : BOOLEAN, top : Scores]

Ranked(rows, k, v) ==
    LET order == IF v.reversed THEN Reverse(rows) ELSE rows
        found == Take(order, Min(v.n, k))
    IN  [j \in 1..Len(found) |-> [row |-> found[j], searchScore |-> v.top - (j - 1)]]

\* the aggregate pipeline: $search, $match when filters are given, $addFields
Aggregate(rows, limit, filters, v) ==
    LET ranked == Ranked(rows, limit, v)
        matched == IF Truthy(filters)
                   THEN SelectSeq(ranked, LAMBDA h : Matches(h.row, filters[1]))
                   ELSE ranked
    IN  [j \in 1..Len(matched) |->
            matched[j].row @@ ("score" :> matched[j].searchScore)]

\* the scan's failure ignored
text_searchIgnoringFailure(rows, f, limit, scan_raises) == Take(FilterRows(rows, f), limit)

\* text_search: find(filters).limit(limit), [] when the scan raises
text_search(rows, f, limit, scan_raises) ==
    IF scan_raises THEN << >> ELSE Take(FilterRows(rows, f), limit)

\* the fallback call of vector_search: 'return await self.text_search(filters or {})'
FallbackScanUnfiltered(rows, filters, scan_raises) ==
    text_search(rows, EmptyFilter, TextSearchLimit, scan_raises)

FallbackScan(rows, filters, scan_raises) ==
    text_search(rows, OrEmpty(filters), TextSearchLimit, scan_raises)

(***************************************************************************)
(* llm_service.py: answer_chat_query                                       *)
(***************************************************************************)
ContextLimit == 5        \* context_documents[:5]
ExcerptLimit == 500      \* doc.get('content', '')[:500]

\* _create_chat_prompt: the query and one entry per context document
_create_chat_prompt(query, context_documents) ==
    LET docs == Take(context_documents, ContextLimit)
    IN  [query |-> query,
         context |-> [i \in 1..Len(docs) |->
            [number |-> i,
             invoice_id |-> get(docs[i], "invoice_id", "Unknown"),
             employee |-> get(docs[i], "employee_name", "Unknown"),
             status |-> get(get(docs[i], "analysis_result", EmptyFilter), "status", "Unknown"),
             reason |-> get(get(docs[i], "analysis_result", EmptyFilter), "reason", "Unknown"),
             policy_reference |->
                 get(get(docs[i], "analysis_result", EmptyFilter), "policy_reference", "Unknown"),
             content |-> Take(get(docs[i], "content", ""), ExcerptLimit)]]]

\* the fallback text without the query
_get_fallback_chat_responseNoEcho(query) ==
    "I apologize, but I'm unable to process your query at the moment. "
        \o "Please try again later or contact support if the issue persists."

_get_fallback_chat_response(query) ==
    "I apologize, but I'm unable to process your query at the moment. "
        \o "Please try again later or contact support if the issue persists."
        \o "\n\nYour query was: " \o query

\* what the provider call does: raises, returns no content, or returns text
ChatGenerationOutcomes == {
    [kind |-> "raises", body |-> ""],
    [kind |-> "none", body |-> ""],
    [kind |-> "text", body |-> "  The taxi invoice was capped at ₹2000.\n"] }

\* answer_chat_query: response.strip(), or the fallback on any exception
answer_chat_query(query, context_documents, g) ==
    IF g.kind = "text" THEN strip(g.body)
    ELSE _get_fallback_chat_response(query)

(***************************************************************************)
(* analysis_service.py: process_chat_query                                 *)
(***************************************************************************)
SourceLimit == 5         \* search_results[:5]

NoHitsResponse == "I couldn't find any relevant invoice analyses to answer your query."

ChatResult(response_text, sources, confidence_score) ==
    [response |-> response_text, sources |-> sources,
     confidence_score |-> confidence_score]

NoChatResult == ChatResult(None, << >>, 0)

\* every hit turned into a source
SourcesUncapped(results) ==
    [i \in 1..Len(results) |->
        [invoice_id |-> get(results[i], "invoice_id", "Unknown"),
         employee |-> get(results[i], "employee_name", "Unknown"),
         date |-> get(results[i], "created_at", 0),
         status |-> get(get(results[i], "analysis_result", EmptyFilter), "status", "Unknown"),
         similarity_score |-> get(results[i], "score", 0)]]

\* the sources of the top results
Sources(results) ==
    LET top == Take(results, SourceLimit)
    IN  [i \in 1..Len(top) |->
            [invoice_id |-> get(top[i], "invoice_id", "Unknown"),
             employee |-> get(top[i], "employee_name", "Unknown"),
             date |-> get(top[i], "created_at", 0),
             status |-> get(get(top[i], "analysis_result", EmptyFilter), "status", "Unknown"),
             similarity_score |-> get(top[i], "score", 0)]]

\* the confidence taken from the last hit
ConfidenceOfLast(results) ==
    IF results = << >> THEN 0 ELSE get(results[Len(results)], "score", 0)

\* search_results[0].get('score', 0.0) if search_results else 0.0
Confidence(results) ==
    IF results = << >> THEN 0 ELSE get(results[1], "score", 0)

\* the emptiness test left out
NoHitsNever(results) == FALSE

\* 'if not search_results'
NoHits(results) == results = << >>

\* the calls the model makes: the chat query, and vector_search on its own
Queries == {"", " \n", "Why was the taxi invoice capped?"}

ChatCalls ==
    [entry : {"process_chat_query"}, query : Queries, limit : {ChatLimit},
     filters : {<< >>}, query_embedding : {<< >>}]

SearchCalls ==
    [entry : {"vector_search"}, query : {""}, limit : {1, TestLimit, ChatLimit},
     filters : FilterInputs, query_embedding : {EncodedVector, ZeroVector}]

ChatIdle ==
    /\ cpc = "idle"
    /\ call = [entry |-> "none", query |-> "", limit |-> ChatLimit,
               filters |-> << >>, query_embedding |-> << >>]
    /\ collection = << >> /\ query_embedding = << >> /\ search_results = << >>
    /\ calls = << >> /\ chat_result = NoChatResult

ChatInit ==
    /\ call \in ChatCalls \cup SearchCalls
    /\ cpc = IF call.entry = "process_chat_query" THEN "start" ELSE "search"
    /\ collection \in Collections
    /\ query_embedding = call.query_embedding
    /\ search_results = << >>
    /\ calls = << >> /\ chat_result = NoChatResult

\* the except of process_chat_query
ChatError(e) ==
    /\ chat_result' =
           ChatResult("Sorry, I encountered an error while processing your query: " \o e,
                      << >>, 0)
    /\ cpc' = "done"

\* query_embedding = self.embedding_service.generate_embedding(query)
EmbedQuery ==
    /\ cpc = "start"
    /\ \E o \in EmbeddingOutcomes :
          \E r \in {generate_embedding(call.query, o)} :
              /\ calls' = calls \o [k \in 1..Len(r.encode_calls) |->
                                       [name |-> "encode",
                                        raised |-> r.encode_calls[k].encode_raises]]
              /\ IF r.raised
                 THEN /\ ChatError("embedding model unavailable")
                      /\ UNCHANGED query_embedding
                 ELSE /\ query_embedding' = r.value
                      /\ cpc' = "search"
                      /\ UNCHANGED chat_result
    /\ UNCHANGED <<call, collection, search_results>>

\* vector_search, the try block: the aggregate call returns hits or raises
VectorSearch ==
    /\ cpc = "search"
    /\ \E v \in SearchOutcomes :
          /\ v.n <= Min(call.limit, Len(collection))
          /\ calls' = Append(calls, [name |-> "vector_search", raised |-> v.raises])
          /\ IF v.raises
             THEN /\ cpc' = "scan"
                  /\ UNCHANGED search_results
             ELSE /\ search_results' =
                         Aggregate(collection, call.limit, call.filters, v)
                  /\ cpc' = "hits"
    /\ UNCHANGED <<call, collection, query_embedding, chat_result>>

\* vector_search, the except block: the scan; its own failure yields no rows
TextSearch ==
    /\ cpc = "scan"
    /\ \E scan_raises \in BOOLEAN :
          /\ calls' = Append(calls, [name |-> "text_search", raised |-> scan_raises])
          /\ search_results' = FallbackScan(collection, call.filters, scan_raises)
    /\ cpc' = "hits"
    /\ UNCHANGED <<call, collection, query_embedding, chat_result>>

\* process_chat_query after the search: the emptiness test, the confidence, the
\* generation call and the sources
AnswerQuery ==
    /\ cpc = "hits"
    /\ call.entry = "process_chat_query"
    /\ IF NoHits(search_results)
       THEN /\ chat_result' = ChatResult(NoHitsResponse, << >>, 0)
            /\ UNCHANGED calls
       ELSE \E g \in ChatGenerationOutcomes :
               /\ calls' = Append(calls,
                                  [name |-> "generate",
                                   prompt |-> _create_chat_prompt(call.query, search_results),
                                   raised |-> g.kind = "raises"])
               /\ chat_result' =
                      ChatResult(answer_chat_query(call.query, search_results, g),
                                 Sources(search_results),
                                 Confidence(search_results))
    /\ cpc' = "done"
    /\ UNCHANGED <<call, collection, query_embedding, search_results>>

(***************************************************************************)
(* embedding_service.py: similarity                                        *)
(* A float is a rational [num, den] with den > 0.  The vectors below have  *)
(* integer components and integer norms, so the dot product, the norms and *)
(* their product are exact in floating point and the quotient is the       *)
(* correctly rounded rational: comparisons agree with the rationals.       *)
(***************************************************************************)
similarity_threshold == 70      \* settings.similarity_threshold, in hundredths

Float(num, den) == [num |-> num, den |-> den]

\* a >= b on floats; every comparison with nan (den = 0) is false
GE(a, b) == a.den # 0 /\ b.den # 0 /\ a.num * b.den >= b.num * a.den

FloatEq(a, b) == GE(a, b) /\ GE(b, a)

RECURSIVE DotTo(_, _, _)
DotTo(v, w, n) == IF n = 0 THEN 0 ELSE v[n] * w[n] + DotTo(v, w, n - 1)

\* np.linalg.norm of a vector whose norm is an integer
norm(v) == CHOOSE r \in 0..DotTo(v, v, Len(v)) : r * r = DotTo(v, v, Len(v))

Similarity(value, divided) == [value |-> value, divided |-> divided, raised |-> FALSE]

\* the test  norm1 == 0 or norm2 == 0  removed: numpy divides by zero and yields nan
calculate_similarityUnguarded(embedding1, embedding2) ==
    IF Len(embedding1) # Len(embedding2)
    THEN Similarity(Float(0, 1), FALSE)
    ELSE Similarity(Float(DotTo(embedding1, embedding2, Len(embedding1)),
                          norm(embedding1) * norm(embedding2)), TRUE)

\* np.dot raises on a length mismatch and the except returns 0.0
calculate_similarity(embedding1, embedding2) ==
    IF Len(embedding1) # Len(embedding2)
    THEN Similarity(Float(0, 1), FALSE)
    ELSE LET dot_product == DotTo(embedding1, embedding2, Len(embedding1))
             norm1 == norm(embedding1)
             norm2 == norm(embedding2)
         IN  IF norm1 = 0 \/ norm2 = 0
             THEN Similarity(Float(0, 1), FALSE)
             ELSE Similarity(Float(dot_product, norm1 * norm2), TRUE)

\* list.sort(key=lambda x: x[1], reverse=True): stable, equal keys keep their order
RECURSIVE SortDescending(_)
SortDescending(pairs) ==
    IF pairs = << >> THEN << >>
    ELSE LET sorted == SortDescending(SubSeq(pairs, 1, Len(pairs) - 1))
             x == pairs[Len(pairs)]
             before == SelectSeq(sorted, LAMBDA p : GE(p[2], x[2]))
             after == SelectSeq(sorted, LAMBDA p : ~GE(p[2], x[2]))
         IN  before \o <<x>> \o after

\* the default applied to every falsy threshold (threshold or settings...)
EffectiveThresholdFalsy(threshold) ==
    IF threshold = << >> \/ threshold = <<0>> THEN similarity_threshold ELSE threshold[1]

\* if threshold is None: threshold = settings.similarity_threshold
EffectiveThreshold(threshold) ==
    IF threshold = << >> THEN similarity_threshold ELSE threshold[1]

RECURSIVE Similarities(_, _, _, _)
Similarities(query, candidates, threshold, n) ==
    IF n = 0 THEN << >>
    ELSE LET similarity == calculate_similarity(query, candidates[n]).value
             rest == Similarities(query, candidates, threshold, n - 1)
         IN  IF GE(similarity, Float(threshold, 100))
             THEN Append(rest, <<n - 1, similarity>>)
             ELSE rest

\* the except returns []: nothing in the try raises for lists of number lists
find_most_similar(query, candidates, threshold) ==
    SortDescending(Similarities(query, candidates, EffectiveThreshold(threshold),
                             Len(candidates)))

Unit(k, c) == [i \in 1..EmbeddingDim |-> IF i = k THEN c ELSE 0]
Pythagorean == [i \in 1..EmbeddingDim |-> IF i = 1 THEN 3 ELSE IF i = 2 THEN 4 ELSE 0]

\* the last one is longer than the embedding dimension
SampleVectors ==
    {ZeroVector, Unit(1, 1), Unit(1, 2), Unit(2, 1), Unit(1, -1), Pythagorean,
     [i \in 1..(EmbeddingDim + 1) |-> IF i = 1 THEN 1 ELSE 0]}

(***************************************************************************)
(* analysis_service.py: get_analysis_summary                               *)
(***************************************************************************)
RECURSIVE SumAmounts(_, _, _)
\* if result.amount: total += result.amount  -- skipped for None and for 0
SumAmounts(results, field, n) ==
    IF n = 0 THEN 0
    ELSE SumAmounts(results, field, n - 1)
         + (IF results[n][field] # << >> /\ results[n][field][1] # 0
            THEN results[n][field][1] ELSE 0)

\* status_counts[status] = status_counts.get(status, 0) + 1
StatusCounts(results) ==
    [s \in {results[i].status : i \in 1..Len(results)} |->
        Cardinality({i \in 1..Len(results) : results[i].status = s})]

\* the guard  total_amount > 0  removed
RateUnguarded(total_reimbursed, total_amount) == Float(total_reimbursed * 100, total_amount)

\* (total_reimbursed / total_amount * 100) if total_amount > 0 else 0
Rate(total_reimbursed, total_amount) ==
    IF total_amount > 0 THEN Float(total_reimbursed * 100, total_amount) ELSE Float(0, 1)

\* the except returns the all-zero summary: nothing in the try raises for a list of
\* InvoiceAnalysis
get_analysis_summary(results) ==
    LET total_amount == SumAmounts(results, "amount", Len(results))
        total_reimbursed == SumAmounts(results, "reimbursed_amount", Len(results))
    IN  [total_invoices |-> Len(results),
         status_distribution |-> StatusCounts(results),
         total_amount |-> total_amount,
         total_reimbursed |-> total_reimbursed,
         reimbursement_rate |-> Rate(total_reimbursed, total_amount)]

SampleDecision(status, amt, reimbursed) ==
    InvoiceAnalysis("invoice_001",
                    [status |-> status, reason |-> PlainReason("r"),
                     policy_reference |-> "p",
                     amount |-> amt, reimbursed_amount |-> reimbursed])

SampleDecisions ==
    {SampleDecision("Fully Reimbursed", <<1 * Scale>>, <<1 * Scale>>),
     SampleDecision("Partially Reimbursed", <<3 * Scale>>, <<2 * Scale>>),
     SampleDecision("Declined", <<50>>, <<0>>),
     SampleDecision("Declined", << >>, << >>),
     SampleDecision("Fully Reimbursed", <<0>>, <<0>>)}

(***************************************************************************)
(* One call of a pure function                                             *)
(***************************************************************************)
NoOut == [returned |-> FALSE]

UtilIdle == fpc = "idle" /\ args = [name |-> "none"] /\ ret = NoOut

\* the thresholds are None, 0.0, 0.6 and 1.0
UtilInit ==
    /\ fpc = "call"
    /\ args \in
           [name : {"calculate_similarity"},
            embedding1 : SampleVectors, embedding2 : SampleVectors]
           \cup
           [name : {"find_most_similar"},
            query_embedding : {ZeroVector, Unit(1, 1), Pythagorean},
            candidate_embeddings : SeqsUpTo(SampleVectors, MaxCandidates),
            threshold : {<< >>, <<0>>, <<60>>, <<100>>}]
           \cup
           [name : {"get_analysis_summary"},
            results : SeqsUpTo(SampleDecisions, MaxResults)]
    /\ ret = NoOut

CalculateSimilarity ==
    /\ fpc = "call" /\ args.name = "calculate_similarity"
    /\ ret' = [returned |-> TRUE, value |-> calculate_similarity(args.embedding1, args.embedding2)]
    /\ fpc' = "returned"
    /\ UNCHANGED args

FindMostSimilar ==
    /\ fpc = "call" /\ args.name = "find_most_similar"
    /\ ret' = [returned |-> TRUE,
                value |-> find_most_similar(args.query_embedding,
                                            args.candidate_embeddings, args.threshold)]
    /\ fpc' = "returned"
    /\ UNCHANGED args

GetAnalysisSummary ==
    /\ fpc = "call" /\ args.name = "get_analysis_summary"
    /\ ret' = [returned |-> TRUE, value |-> get_analysis_summary(args.results)]
    /\ fpc' = "returned"
    /\ UNCHANGED args

(***************************************************************************)
(* Specifications                                                          *)
(***************************************************************************)
Init == BatchInit /\ PolicyIdle /\ ChatIdle /\ UtilIdle

Next ==
    \/ ValidateInputs /\ UNCHANGED policyVars /\ UNCHANGED chatVars /\ UNCHANGED utilVars
    \/ ExtractInvoices /\ UNCHANGED policyVars /\ UNCHANGED chatVars /\ UNCHANGED utilVars
    \/ ClassifyDocument /\ UNCHANGED policyVars /\ UNCHANGED chatVars /\ UNCHANGED utilVars
    \/ EmbedDocument /\ UNCHANGED policyVars /\ UNCHANGED chatVars /\ UNCHANGED utilVars
    \/ BuildRecord /\ UNCHANGED policyVars /\ UNCHANGED chatVars /\ UNCHANGED utilVars
    \/ StoreAndReturn /\ UNCHANGED policyVars /\ UNCHANGED chatVars /\ UNCHANGED utilVars

Spec == Init /\ [][Next]_vars

InitPolicy == PolicyInit /\ BatchIdle /\ ChatIdle /\ UtilIdle

NextPolicy ==
    \/ Classify /\ UNCHANGED batchVars /\ UNCHANGED chatVars /\ UNCHANGED utilVars
    \/ Validate /\ UNCHANGED batchVars /\ UNCHANGED chatVars /\ UNCHANGED utilVars
    \/ AnalyzeWithPolicy /\ UNCHANGED batchVars /\ UNCHANGED chatVars /\ UNCHANGED utilVars

SpecPolicy == InitPolicy /\ [][NextPolicy]_vars

\* one call of vector_search or of process_chat_query
InitChat == ChatInit /\ PolicyIdle /\ BatchIdle /\ UtilIdle

NextChat ==
    \/ EmbedQuery /\ UNCHANGED policyVars /\ UNCHANGED batchVars /\ UNCHANGED utilVars
    \/ VectorSearch /\ UNCHANGED policyVars /\ UNCHANGED batchVars /\ UNCHANGED utilVars
    \/ TextSearch /\ UNCHANGED policyVars /\ UNCHANGED batchVars /\ UNCHANGED utilVars
    \/ AnswerQuery /\ UNCHANGED policyVars /\ UNCHANGED batchVars /\ UNCHANGED utilVars

SpecChat == InitChat /\ [][NextChat]_vars

\* the core boundary: one call of analyze_invoices, of process_chat_query or of
\* vector_search
InitCore == Init \/ InitChat

NextCore == Next \/ NextChat

SpecCore == InitCore /\ [][NextCore]_vars

\* one call of calculate_similarity, find_most_similar or get_analysis_summary
InitUtil == UtilInit /\ PolicyIdle /\ BatchIdle /\ ChatIdle

NextUtil ==
    \/ CalculateSimilarity /\ UNCHANGED policyVars /\ UNCHANGED batchVars /\ UNCHANGED chatVars
    \/ FindMostSimilar /\ UNCHANGED policyVars /\ UNCHANGED batchVars /\ UNCHANGED chatVars
    \/ GetAnalysisSummary /\ UNCHANGED policyVars /\ UNCHANGED batchVars /\ UNCHANGED chatVars

SpecUtil == InitUtil /\ [][NextUtil]_vars


(***************************************************************************)
(* Properties of the policy service (checked under SpecPolicy)             *)
(***************************************************************************)
\* the limits the policy states, in hundredths
StatedLimit == [food_beverages  |-> 200 * 100,
                travel_expenses |-> 2000 * 100,
                cab             |-> 200 * 100,
                daily_cab       |-> 150 * 100,
                accommodation   |-> 50 * 100]

Mentions(t, words) == LET lower == StrLower(t) IN \E w \in words : Contains(lower, w)

MentionsAlcohol(t) == Mentions(t, {"alcohol", "beer", "wine", "liquor"})
MentionsFood(t) ==
    Mentions(t, {"food", "meal", "restaurant", "cafe", "dining", "lunch", "dinner", "breakfast"})
MentionsAccommodation(t) == Mentions(t, {"hotel", "accommodation", "lodging", "stay", "room"})
MentionsCab(t) == Mentions(t, {"cab", "taxi", "uber", "ola"})
MentionsDaily(t) == Mentions(t, {"daily", "office", "commute", "regular"})
MentionsBusiness(t) == Mentions(t, {"client", "meeting", "business", "trip", "visit"})

Validated == ppc \in {"validated", "analyzed"}
Classified == ppc \in {"classified", "analyzed"}
RestrictionFree == ~(category = "food_beverages" /\ MentionsAlcohol(text))

\* C1: for a category of the rule set with limit m, an amount a <= m (0 included)
\* and a text the alcohol restriction does not apply to, the decision is
\* Fully Reimbursed with reimbursed_amount = a and amount = a.
C1_FullyWithinLimit ==
    (/\ Validated
     /\ category \in DOMAIN StatedLimit
     /\ amount <= StatedLimit[category]
     /\ RestrictionFree)
    => /\ result.status = "Fully Reimbursed"
       /\ result.reimbursed_amount = <<amount>>
       /\ result.amount = <<amount>>

\* an amount equal to the limit is fully reimbursed
C1_Witness ==
    /\ ppc = "validated"
    /\ category = "accommodation"
    /\ amount = 5000
    /\ result.status = "Fully Reimbursed"

\* C2: for a category of the rule set with limit m, an amount a > m and a text the
\* alcohol restriction does not apply to, the decision is Partially Reimbursed
\* with reimbursed_amount = m and amount = a.
C2_PartialAboveLimit ==
    (/\ Validated
     /\ category \in DOMAIN StatedLimit
     /\ amount > StatedLimit[category]
     /\ RestrictionFree)
    => /\ result.status = "Partially Reimbursed"
       /\ result.reimbursed_amount = <<StatedLimit[category]>>
       /\ result.amount = <<amount>>

\* one hundredth above the travel limit
C2_Witness ==
    /\ ppc = "validated"
    /\ category = "travel_expenses"
    /\ amount = 200001
    /\ result.reimbursed_amount = <<200000>>

\* C3: for food_beverages and a text that mentions alcohol, beer, wine or liquor
\* in any letter case, the decision is Declined with reimbursed_amount = 0,
\* whatever the amount.
C3_AlcoholDeclined ==
    (/\ Validated
     /\ category = "food_beverages"
     /\ MentionsAlcohol(text))
    => /\ result.status = "Declined"
       /\ result.reimbursed_amount = <<0>>

\* the restriction wins over an amount above the limit
C3_Witness ==
    /\ ppc = "validated"
    /\ category = "food_beverages"
    /\ MentionsAlcohol(text)
    /\ amount > StatedLimit["food_beverages"]
    /\ result.status = "Declined"

\* C5: the category is that of the first keyword group, in the order food,
\* accommodation, cab group, transport, with a substring hit in the lower-cased
\* text; a text that hits none of them is travel_expenses.
C5_GroupPriority ==
    Classified =>
        IF MentionsFood(text) THEN category = "food_beverages"
        ELSE IF MentionsAccommodation(text) THEN category = "accommodation"
        ELSE IF MentionsCab(text) THEN category \in {"daily_cab", "travel_expenses", "cab"}
        ELSE category = "travel_expenses"

\* a text with both 'hotel' and 'lunch' is food_beverages
C5_Witness ==
    /\ ppc = "classified"
    /\ Mentions(text, {"hotel"})
    /\ Mentions(text, {"lunch"})
    /\ category = "food_beverages"

\* C6: for a text that hits the cab group and no food or accommodation keyword,
\* the category is daily_cab if a daily keyword is present, else travel_expenses
\* if a business keyword is present, else cab; so a cab invoice for a client
\* meeting with amount 2500 is Partially Reimbursed with 2000.
C6_CabSubPriority ==
    (/\ Classified
     /\ MentionsCab(text)
     /\ ~MentionsFood(text)
     /\ ~MentionsAccommodation(text))
    => /\ category = IF MentionsDaily(text) THEN "daily_cab"
                     ELSE IF MentionsBusiness(text) THEN "travel_expenses"
                     ELSE "cab"
       /\ (/\ ppc = "analyzed"
           /\ ~MentionsDaily(text)
           /\ MentionsBusiness(text)
           /\ amount = 250000)
          => /\ result.status = "Partially Reimbursed"
             /\ result.reimbursed_amount = <<200000>>

\* the taxi invoice for a client meeting
C6_Witness ==
    /\ ppc = "analyzed"
    /\ text = "Taxi fare client meeting - Total: ₹2500"
    /\ category = "travel_expenses"
    /\ result.reimbursed_amount = <<200000>>

PatternOrder == <<"₹", "rs", "rupee", "amount", "total">>

\* C7: the amount is the first match of the first of the five patterns, in the
\* order symbol, rs, rupees, amount, total, that has a match, wherever the
\* matches of the later patterns are; it is 0 when no pattern matches.
C7_FirstPatternFirstMatch ==
    /\ \A k \in 1..Len(PatternOrder) : amount_patterns[k].lit = PatternOrder[k]
    /\ Classified =>
          LET lower == StrLower(text)
              found == [k \in 1..Len(amount_patterns) |-> FindAll(amount_patterns[k], lower)]
              hits == {k \in 1..Len(amount_patterns) : found[k] # << >>}
          IN  IF hits # {}
              THEN LET first == CHOOSE k \in hits : \A j \in hits : k <= j
                   IN  amount = ParseFloat(StrRemove(found[first][1], ","))
              ELSE amount = 0

\* a symbol-prefixed number wins over a 'total:' number placed before it
C7_Witness ==
    /\ ppc = "classified"
    /\ text = "Total: 2,100 " \o "₹180 "
    /\ amount = 18000


(***************************************************************************)
(* Properties of analyze_invoices (checked under Spec)                     *)
(***************************************************************************)
Returned == pc = "done"

ErrorResponse == AnalysisResponse("error", << >>, 0)

\* the storage call was made and raised
StoreFailed == stored # << >> /\ ~stored[Len(stored)].ok

\* some amount pattern matches the document's text
AmountDetectable == [t \in Documents |->
    \E k \in 1..Len(amount_patterns) : FindAll(amount_patterns[k], StrLower(t)) # << >>]

\* the limit of the rule a decision names, if it names one
WithinRuleLimit(r) ==
    (r.reimbursed_amount # << >> /\ r.category # << >> /\ r.category[1] \in DOMAIN StatedLimit)
    => r.reimbursed_amount[1] <= StatedLimit[r.category[1]]

IntegratedSuccess ==
    Returned /\ response.status = "success" /\ inputs.use_integrated_policy

\* C4 as claimed: in an integrated-mode batch result no reimbursed_amount exceeds
\* the matched rule's maximum, and reimbursed_amount is absent only for a document
\* whose text carries no detectable amount.
C4_AbsentOnlyWithoutAmount ==
    IntegratedSuccess =>
        \A k \in 1..Len(response.results) :
            LET r == response.results[k] IN
            /\ WithinRuleLimit(r)
            /\ r.reimbursed_amount = << >> => ~AmountDetectable[invoices[r.invoice_id]]

\* C4 as amended: in an integrated-mode batch result no reimbursed_amount exceeds
\* the matched rule's maximum, and reimbursed_amount is absent only in the Declined
\* decision of a document whose processing failed, whose amount is absent as
\* well; every other decision carries both amounts and its category.
C4_AbsentOnlyInFailureDecision ==
    IntegratedSuccess =>
        \A k \in 1..Len(response.results) :
            LET r == response.results[k] IN
            /\ WithinRuleLimit(r)
            /\ r.reimbursed_amount = << >>
               => /\ r.amount = << >>
                  /\ r.status = "Declined"
                  /\ failures[r.invoice_id] # "none"
            /\ r.reimbursed_amount # << >>
               => /\ r.amount # << >>
                  /\ r.category # << >>

\* a capped decision and a failure decision for a document that carries an amount
C4_Witness ==
    /\ IntegratedSuccess
    /\ \E k \in 1..Len(response.results) :
          /\ response.results[k].reimbursed_amount = <<200000>>
          /\ response.results[k].amount = <<250000>>
    /\ \E k \in 1..Len(response.results) :
          /\ response.results[k].reimbursed_amount = << >>
          /\ AmountDetectable[invoices[response.results[k].invoice_id]]

\* the decision the classification of document i yields on its own
OwnDecision(i) ==
    InvoiceAnalysis(i, IF inputs.use_integrated_policy
                       THEN PolicyAnalysis[invoices[i]]
                       ELSE analyze_invoice(generated[i]))

HasDecision(i, r) == \E k \in 1..Len(analysis_results) : analysis_results[k] = r

C8_Isolated ==
    (Returned /\ invoices # << >>) =>
        /\ Len(failures) = Len(invoices)
        /\ \A i \in 1..Len(invoices) :
              /\ failures[i] # "none"
                 => \E k \in 1..Len(analysis_results) :
                       /\ analysis_results[k].invoice_id = i
                       /\ analysis_results[k].status = "Declined"
                       /\ analysis_results[k].reason.template = "Analysis failed: {e}"
                       /\ analysis_results[k].reason.error # ""
              /\ (~inputs.use_integrated_policy /\ generated[i].kind \in {"raises", "text"})
                 => \E k \in 1..Len(analysis_results) :
                       /\ analysis_results[k].invoice_id = i
                       /\ analysis_results[k].status = "Declined"
                       /\ analysis_results[k].reason.template =
                              "Unable to analyze invoice due to processing error"
              /\ failures[i] \in {"none", "embedding", "record"}
                 => HasDecision(i, OwnDecision(i))
        /\ ~StoreFailed
           => /\ response.status = "success"
              /\ response.results = analysis_results

\* a step of the loop only appends to the decision list
C8_AppendOnly ==
    /\ Len(analysis_results') >= Len(analysis_results)
    /\ \A k \in 1..Len(analysis_results) : analysis_results'[k] = analysis_results[k]

C9_BatchLevelErrors ==
    Returned =>
        /\ ~inputs.zip_valid => (response = ErrorResponse /\ stored = << >>)
        /\ invoices = << >> => (response = ErrorResponse /\ stored = << >>)
        /\ (~inputs.use_integrated_policy /\ inputs.policy \in {"missing", "invalid", "blank"})
           => (response = ErrorResponse /\ stored = << >>)

\* a valid container with a policy file whose text is blank
C9_Witness ==
    /\ Returned
    /\ inputs.zip_valid
    /\ ~inputs.use_integrated_policy
    /\ inputs.policy = "blank"
    /\ response.status = "error"

\* C10: when insert_invoices_batch raises after the documents were classified,
\* the batch returns status 'error' with no results and total_invoices 0; the
\* decisions already computed are not returned.
C10_StoreFailureIsBatchError ==
    (Returned /\ StoreFailed) => response = ErrorResponse

\* decisions for every document were computed and the storage call raised
C10_Witness ==
    /\ Returned
    /\ StoreFailed
    /\ Len(analysis_results) >= Len(invoices)
    /\ \E k \in 1..Len(analysis_results) : analysis_results[k].status = "Fully Reimbursed"
    /\ response = ErrorResponse


(***************************************************************************)
(* Properties of the core boundary (checked under SpecCore)                *)
(***************************************************************************)
CalledWith(name, raised) ==
    \E k \in 1..Len(calls) : calls[k].name = name /\ calls[k].raised = raised

Called(name) == \E k \in 1..Len(calls) : calls[k].name = name

ChatReturned == cpc = "done"

SourceFields == {"invoice_id", "employee", "date", "status", "similarity_score"}

C11_NoEscape == pc # "raised" /\ cpc # "raised"

C11_WellFormed ==
    /\ Returned =>
          /\ response.status \in {"success", "error"}
          /\ response.total_invoices \in 0..MaxDocs
          /\ \A k \in 1..Len(response.results) :
                /\ response.results[k].status \in ReimbursementStatus
                /\ response.results[k].invoice_id \in 1..Len(invoices)
          /\ response.status = "error" => response.results = << >>
    /\ ChatReturned =>
          /\ chat_result.response # None
          /\ Len(chat_result.sources) <= Len(search_results)
          /\ \A k \in 1..Len(chat_result.sources) :
                DOMAIN chat_result.sources[k] = SourceFields
          /\ chat_result.confidence_score \in 0..100

\* a call that has not returned has a next step
C11_CanContinue ==
    /\ pc \notin {"idle", "done"} => ENABLED Next
    /\ (call.entry = "process_chat_query" /\ cpc # "done") => ENABLED NextChat

\* the steps a call has left, at most
C11_StepsLeft ==
    (CASE pc = "start" -> 3 * MaxDocs + 3
       [] pc = "extract" -> 3 * MaxDocs + 2
       [] pc = "classify" -> 3 * (Len(invoices) - idx) + 4
       [] pc = "embed" -> 3 * (Len(invoices) - idx) + 3
       [] pc = "record" -> 3 * (Len(invoices) - idx) + 2
       [] pc = "store" -> 1
       [] OTHER -> 0)
    + (CASE cpc = "start" -> 4
         [] cpc = "search" -> 3
         [] cpc = "scan" -> 2
         [] cpc = "hits" /\ call.entry = "process_chat_query" -> 1
         [] OTHER -> 0)

\* C11: whatever the embedding, generation, vector-search, scan and storage
\* capabilities do, analyze_invoices and process_chat_query run to their return
\* (a call that has not returned has a next step, and every step leaves fewer
\* steps to go), the result is well formed (an AnalysisResponse with status
\* 'success' or 'error'; a response, sources, confidence triple), and no
\* exception escapes.
C11_AlwaysReturns ==
    /\ [](C11_NoEscape /\ C11_WellFormed /\ C11_CanContinue)
    /\ [][C11_StepsLeft' < C11_StepsLeft]_vars

\* a chat query answered although the embedding, the vector search and the
\* generation all failed
C11_Witness ==
    /\ ChatReturned
    /\ CalledWith("encode", TRUE)
    /\ CalledWith("vector_search", TRUE)
    /\ CalledWith("generate", TRUE)
    /\ chat_result.sources # << >>

(***************************************************************************)
(* Properties of vector_search and process_chat_query (checked under       *)
(* SpecChat)                                                               *)
(***************************************************************************)
SearchReturned == cpc \in {"hits", "done"}

\* the filter the caller supplied, the empty one if none
CallerFilter == IF call.filters = << >> THEN EmptyFilter ELSE call.filters[1]

\* the stored records equal to the caller's filter on every key of it
StoredMatching ==
    SelectSeq(collection,
              LAMBDA row : \A k \in DOMAIN CallerFilter : row[k] = CallerFilter[k])

\* what the scan hands back: nothing when it raised, else its first ten rows
ScanRows ==
    IF CalledWith("text_search", TRUE) THEN << >>
    ELSE SubSeq(StoredMatching, 1, Min(Len(StoredMatching), 10))

\* C12: when the vector search raises, vector_search returns the rows of the
\* equality scan made with the caller's filters (the empty filter if none were
\* given); when the vector search succeeds the scan is not called.
C12_FallbackUsesCallerFilters ==
    SearchReturned =>
        /\ CalledWith("vector_search", TRUE)
           => /\ Called("text_search")
              /\ search_results = ScanRows
        /\ CalledWith("vector_search", FALSE) => ~Called("text_search")

\* a filtered search that fell back and returned part of the collection
C12_Witness ==
    /\ SearchReturned
    /\ CalledWith("vector_search", TRUE)
    /\ call.filters = <<[employee_name |-> "alice"]>>
    /\ search_results # << >>
    /\ Len(search_results) < Len(collection)

\* C13: the number of hits vector_search returns is at most the caller's limit,
\* when the vector search succeeds and when the fallback scan is used.
C13_LimitBoundsBothModes ==
    SearchReturned => Len(search_results) <= call.limit

\* C14: every hit of the degraded path is marked with the search mode
\* 'fallback-text' and every hit of the primary path with 'vector'.
C14_HitsCarryMode ==
    SearchReturned =>
        \A i \in 1..Len(search_results) :
            /\ "mode" \in DOMAIN search_results[i]
            /\ search_results[i].mode =
                   IF CalledWith("vector_search", TRUE) THEN "fallback-text" ELSE "vector"

\* C15: when retrieval returns no hits, process_chat_query returns the fixed
\* no-results response with no sources and confidence 0.0, and the generation
\* capability is not called.
C15_NoHitsFixedResponse ==
    (ChatReturned /\ search_results = << >>) =>
        /\ chat_result.response =
               "I couldn't find any relevant invoice analyses to answer your query."
        /\ chat_result.sources = << >>
        /\ chat_result.confidence_score = 0
        /\ ~Called("generate")

\* a query against the empty collection, and one whose two searches both failed
C15_Witness ==
    /\ ChatReturned
    /\ search_results = << >>
    /\ \/ collection = << >>
       \/ collection # << >> /\ CalledWith("text_search", TRUE)

\* the sources the first five hits give, field by field
TopHits == SubSeq(search_results, 1, Min(Len(search_results), 5))

SourceOf(hit) ==
    [invoice_id |-> hit.invoice_id,
     employee |-> hit.employee_name,
     date |-> hit.created_at,
     status |-> hit.analysis_result.status,
     similarity_score |-> IF "score" \in DOMAIN hit THEN hit.score ELSE 0]

ExpectedSources == [i \in 1..Len(TopHits) |-> SourceOf(TopHits[i])]

GenerationFailed ==
    /\ ChatReturned
    /\ search_results # << >>
    /\ CalledWith("generate", TRUE)

ApologyEchoing(query) ==
    "I apologize, but I'm unable to process your query at the moment. "
        \o "Please try again later or contact support if the issue persists."
        \o "\n\nYour query was: " \o query

\* C16 as claimed: with at least one hit and the generation failing, the answer
\* is the apology echoing the query, the confidence is 0.0 and the sources are
\* those of the first five hits.
C16_GenerationFailureZeroConfidence ==
    GenerationFailed =>
        /\ chat_result.response = ApologyEchoing(call.query)
        /\ chat_result.confidence_score = 0
        /\ chat_result.sources = ExpectedSources

\* C16: with at least one hit and the generation failing, the answer is the
\* apology echoing the query, the sources are those of the first five hits, as
\* they are when the generation succeeds, and the confidence is the score of
\* the first hit (0.0 only if that hit carries no score).
C16_GenerationFailureKeepsConfidence ==
    GenerationFailed =>
        /\ chat_result.response = ApologyEchoing(call.query)
        /\ chat_result.sources = ExpectedSources
        /\ chat_result.confidence_score =
               (IF "score" \in DOMAIN search_results[1] THEN search_results[1].score ELSE 0)

\* the generation failed on hits the vector search had scored
C16_Witness ==
    /\ GenerationFailed
    /\ call.query = "Why was the taxi invoice capped?"
    /\ chat_result.confidence_score = 95
    /\ Len(chat_result.sources) = 5

\* C17: with a non-empty hit list, the confidence returned is the score of the
\* first hit, 0.0 when that hit carries no score; no later hit changes it.
C17_ConfidenceIsTopScore ==
    (ChatReturned /\ search_results # << >>) =>
        chat_result.confidence_score =
            (IF "score" \in DOMAIN search_results[1] THEN search_results[1].score ELSE 0)

\* several scored hits, and a fallback result without scores
C17_Witness ==
    /\ ChatReturned
    /\ Len(search_results) >= 2
    /\ \/ /\ CalledWith("vector_search", FALSE)
          /\ chat_result.confidence_score = 60
          /\ search_results[2].score = 59
       \/ /\ CalledWith("vector_search", TRUE)
          /\ chat_result.confidence_score = 0

\* a prefix of at most 500 characters
Excerpt(content) == SubSeq(content, 1, Min(Len(content), 500))

GenerateCall == calls[CHOOSE k \in 1..Len(calls) : calls[k].name = "generate"]

\* C18: for n hits the sources number min(n, 5) and come from the first
\* min(n, 5) hits in ranked order; the context handed to the generation
\* capability comes from the same hits, each content cut to 500 characters.
C18_TopFive ==
    ChatReturned =>
        /\ Len(chat_result.sources) = Min(Len(search_results), 5)
        /\ \A i \in 1..Len(chat_result.sources) :
              chat_result.sources[i] = SourceOf(search_results[i])
        /\ Called("generate") =>
              /\ Len(GenerateCall.prompt.context) = Min(Len(search_results), 5)
              /\ \A i \in 1..Len(GenerateCall.prompt.context) :
                    /\ GenerateCall.prompt.context[i].invoice_id = search_results[i].invoice_id
                    /\ GenerateCall.prompt.context[i].content = Excerpt(search_results[i].content)
                    /\ Len(GenerateCall.prompt.context[i].content) <= 500

\* more than five hits, one of them with a content longer than 500 characters
C18_Witness ==
    /\ ChatReturned
    /\ Len(search_results) > 5
    /\ Len(chat_result.sources) = 5
    /\ Called("generate")
    /\ \E i \in 1..5 :
          /\ Len(search_results[i].content) > 500
          /\ Len(GenerateCall.prompt.context[i].content) = 500

\* a text of whitespace only
Blank(t) == \A i \in 1..Len(t) : SubSeq(t, i, i) \in {" ", "\n", "\t", "\r"}

AllZero(v) == Len(v) = EmbeddingDim /\ \A i \in 1..Len(v) : v[i] = 0

QueryEmbedded == call.entry = "process_chat_query" /\ cpc # "start"

\* C19: generate_embedding on an empty or whitespace-only text returns the
\* all-zero vector of the model's dimension, and model.encode is not called.
C19_BlankIsZeroWithoutEncode ==
    (QueryEmbedded /\ Blank(call.query)) =>
        /\ AllZero(query_embedding)
        /\ ~Called("encode")

\* a whitespace-only query embedded and the call carried through
C19_Witness ==
    /\ ChatReturned
    /\ call.query = " \n"
    /\ AllZero(query_embedding)
    /\ search_results # << >>

(***************************************************************************)
(* Properties of generate_embedding in both callers (checked under         *)
(* SpecCore)                                                               *)
(***************************************************************************)
EncodeRaisedFor(i) ==
    \E k \in 1..Len(embedded) :
        embedded[k].invoice_id = i /\ embedded[k].encode_raises

C20_SameLength ==
    /\ QueryEmbedded => Len(query_embedding) = EmbeddingDim
    /\ pc = "record" => Len(cur.embedding) = EmbeddingDim
    /\ \A k \in 1..Len(invoice_documents) :
          Len(invoice_documents[k].embedding) = EmbeddingDim

C20_ZeroOnFailure ==
    /\ (QueryEmbedded /\ CalledWith("encode", TRUE)) => AllZero(query_embedding)
    /\ (pc = "record" /\ EncodeRaisedFor(idx)) => AllZero(cur.embedding)
    /\ \A k \in 1..Len(invoice_documents) :
          EncodeRaisedFor(invoice_documents[k].invoice_id)
              => AllZero(invoice_documents[k].embedding)

C20_NeverAborts ==
    /\ \A i \in 1..Len(failures) : failures[i] # "embedding"
    /\ \A i \in 1..Len(failures) :
          (EncodeRaisedFor(i) /\ inputs.employee_name_ok)
              => \E k \in 1..Len(invoice_documents) : invoice_documents[k].invoice_id = i
    /\ (ChatReturned /\ CalledWith("encode", TRUE)) => Called("vector_search")

\* C20: when model.encode raises, generate_embedding returns the all-zero
\* vector of length D instead of raising; every vector it returns, for the chat
\* query and for each document, has length D; and no document of a batch is
\* failed by an embedding failure.
C20_EmbeddingFailureIsZeroVector ==
    C20_SameLength /\ C20_ZeroOnFailure /\ C20_NeverAborts

\* a batch that succeeded and stored a document whose encode call raised
C20_Witness ==
    /\ Returned
    /\ response.status = "success"
    /\ \E k \in 1..Len(invoice_documents) :
          /\ EncodeRaisedFor(invoice_documents[k].invoice_id)
          /\ AllZero(invoice_documents[k].embedding)
    /\ \E k \in 1..Len(invoice_documents) :
          ~AllZero(invoice_documents[k].embedding)

(***************************************************************************)
(* Properties of calculate_similarity, find_most_similar and               *)
(* get_analysis_summary (checked under SpecUtil)                           *)
(***************************************************************************)
FindReturned == fpc = "returned" /\ args.name = "find_most_similar"

\* the similarity of the query to the candidate with 0-based index k
SimilarityTo(k) ==
    calculate_similarity(args.query_embedding, args.candidate_embeddings[k + 1]).value

\* the threshold the caller asked for, the configured one when the caller passed none
RequestedThreshold ==
    IF args.threshold = << >> THEN Float(similarity_threshold, 100)
    ELSE Float(args.threshold[1], 100)

\* each index at or above the threshold once, with its similarity; no other pair
ExactlyAboveThreshold ==
    /\ \A j \in 1..Len(ret.value) :
           /\ ret.value[j][1] \in 0..(Len(args.candidate_embeddings) - 1)
           /\ FloatEq(ret.value[j][2], SimilarityTo(ret.value[j][1]))
    /\ \A k \in 0..(Len(args.candidate_embeddings) - 1) :
           Cardinality({j \in 1..Len(ret.value) : ret.value[j][1] = k})
               = IF GE(SimilarityTo(k), RequestedThreshold) THEN 1 ELSE 0

\* C21 as stated: the pairs returned by find_most_similar are sorted strictly
\* descending by similarity and are exactly the indices at or above the threshold
C21_StrictlyDescending ==
    FindReturned =>
        /\ ExactlyAboveThreshold
        /\ \A j \in 1..(Len(ret.value) - 1) :
               ~GE(ret.value[j + 1][2], ret.value[j][2])

\* C21 amended: the pairs returned by find_most_similar are sorted by
\* non-increasing similarity, pairs of equal similarity in candidate order, and
\* are exactly the candidate indices whose similarity is >= the threshold, the
\* threshold being the configured 0.7 only when the caller passes none
C21_DescendingTiesInOrder ==
    FindReturned =>
        /\ ExactlyAboveThreshold
        /\ \A j \in 1..(Len(ret.value) - 1) :
               /\ GE(ret.value[j][2], ret.value[j + 1][2])
               /\ FloatEq(ret.value[j][2], ret.value[j + 1][2])
                      => ret.value[j][1] < ret.value[j + 1][1]

\* two candidates of equal similarity are both returned under the default threshold
C21_Witness ==
    /\ FindReturned
    /\ args.threshold = << >>
    /\ Len(ret.value) = 2
    /\ FloatEq(ret.value[1][2], ret.value[2][2])

SimilarityReturned == fpc = "returned" /\ args.name = "calculate_similarity"

ZeroNorm(v) == \A i \in 1..Len(v) : v[i] = 0

\* C22: calculate_similarity returns exactly 0.0, without dividing and without
\* raising, whenever either argument has zero norm; find_most_similar never
\* returns a zero-norm candidate for a positive threshold
C22_ZeroNormIsZero ==
    /\ SimilarityReturned /\ (ZeroNorm(args.embedding1) \/ ZeroNorm(args.embedding2))
           => /\ ret.value.value = Float(0, 1)
              /\ ~ret.value.divided
              /\ ~ret.value.raised
    /\ FindReturned /\ RequestedThreshold.num > 0
           => \A j \in 1..Len(ret.value) :
                  ~ZeroNorm(args.candidate_embeddings[ret.value[j][1] + 1])

\* the all-zero sentinel was compared with a non-zero vector
C22_Witness ==
    /\ SimilarityReturned
    /\ args.embedding1 = ZeroVector
    /\ args.embedding2 = Pythagorean
    /\ ret.value.value = Float(0, 1)

SummaryReturned == fpc = "returned" /\ args.name = "get_analysis_summary"

RECURSIVE SumOver(_, _)
SumOver(f, S) ==
    IF S = {} THEN 0
    ELSE LET x == CHOOSE y \in S : TRUE IN f[x] + SumOver(f, S \ {x})

\* the sum of the values of an optional field over the decisions that carry one
SumPresent(results, field) ==
    SumOver([i \in 1..Len(results) |->
                IF results[i][field] = << >> THEN 0 ELSE results[i][field][1]],
            1..Len(results))

SummaryOf(results, summary) ==
    /\ summary.total_invoices = Len(results)
    /\ DOMAIN summary.status_distribution \subseteq ReimbursementStatus
    /\ SumOver(summary.status_distribution, DOMAIN summary.status_distribution)
           = summary.total_invoices
    /\ summary.total_amount = SumPresent(results, "amount")
    /\ summary.total_reimbursed = SumPresent(results, "reimbursed_amount")
    /\ FloatEq(summary.reimbursement_rate,
               IF summary.total_amount > 0
               THEN Float(summary.total_reimbursed * 100, summary.total_amount)
               ELSE Float(0, 1))
    /\ results = << >>
           => /\ summary.total_invoices = 0
              /\ DOMAIN summary.status_distribution = {}
              /\ summary.total_amount = 0
              /\ summary.total_reimbursed = 0
              /\ FloatEq(summary.reimbursement_rate, Float(0, 1))

\* C23: get_analysis_summary returns the count, the status counts, the two sums
\* and the rate (0 when nothing was claimed) of the decision list, all zero for
\* the empty list, and leaves the list unchanged
C23_SummaryIsAggregation ==
    /\ [](SummaryReturned => ret.returned /\ SummaryOf(args.results, ret.value))
    /\ [][args.name = "get_analysis_summary" => args' = args]_vars

\* a list with a decision without amounts and a decision with amounts was summarised
C23_Witness ==
    /\ SummaryReturned
    /\ Len(args.results) = 2
    /\ args.results[1].amount = << >>
    /\ args.results[2].amount = <<3 * Scale>>
    /\ ret.value.total_reimbursed = 2 * Scale

(***************************************************************************)
(* Further properties of analyze_invoices (checked under Spec)             *)
(***************************************************************************)
CustomMode == ~inputs.use_integrated_policy

\* the required fields a parsed object lacks
MissingFields(i) ==
    IF generated[i].kind = "object"
    THEN {"status", "reason", "policy_reference"} \ DOMAIN generated[i].body
    ELSE {}

\* the value of a required field is the literal placeholder
IsPlaceholder(r, field) ==
    IF field = "reason" THEN r.reason.template = "Not specified"
    ELSE r[field] = "Not specified"

\* C24: in custom-policy mode, when the generation capability returns an object
\* that lacks required fields, the document's decision carries 'Not specified'
\* for each missing field and the document is not treated as a failure
C24_MissingFieldsArePlaceholders ==
    \A i \in 1..Len(failures) :
        (CustomMode /\ MissingFields(i) # {})
        => /\ failures[i] # "classification"
           /\ \E k \in 1..Len(analysis_results) :
                 /\ analysis_results[k].invoice_id = i
                 /\ \A f \in MissingFields(i) : IsPlaceholder(analysis_results[k], f)

\* the generation capability raised or returned something that is not an object
Malformed(i) == generated[i].kind \in {"raises", "text", "array", "number"}

\* the fixed fallback decision of analyze_invoice, as the decision of document i
IsFixedFallback(r, i) ==
    /\ r.invoice_id = i
    /\ r.status = "Declined"
    /\ r.reason.template = "Unable to analyze invoice due to processing error"
    /\ r.policy_reference = "Error in analysis"
    /\ r.amount = << >>
    /\ r.reimbursed_amount = << >>

\* C26: in custom-policy mode, whenever the generation capability raises or
\* returns text that is not JSON or JSON that is not an object, the document's
\* classification is the fixed fallback decision and nothing is raised to the
\* batch loop
C26_MalformedOutputIsFallback ==
    \A i \in 1..Len(failures) :
        (CustomMode /\ Malformed(i))
        => /\ failures[i] # "classification"
           /\ \E k \in 1..Len(analysis_results) : IsFixedFallback(analysis_results[k], i)

\* C27: a batch that returns 'success' returns exactly one decision per extracted
\* document, in extraction order, wherever in its iteration a document failed
C27_OneDecisionPerDocument ==
    (Returned /\ response.status = "success") =>
        /\ response.total_invoices = Len(invoices)
        /\ Len(response.results) = response.total_invoices
        /\ \A i \in 1..Len(response.results) : response.results[i].invoice_id = i

\* the documents whose iteration ended without a failure, in document order
Completed == SelectSeq([i \in 1..Len(failures) |-> i], LAMBDA i : failures[i] = "none")

\* C28: the storage collaborator is called at most once, after the last document
\* was processed, with the records of the documents that did not fail, in document
\* order; when every document fails it is not called and the batch returns
\* 'success' with all decisions Declined
C28_StoreOnceAfterLoop ==
    /\ Len(stored) <= 1
    /\ stored # << >>
       => /\ Len(failures) = Len(invoices)
          /\ Len(stored[1].docs) = Len(Completed)
          /\ \A k \in 1..Len(Completed) :
                /\ stored[1].docs[k].invoice_id = Completed[k]
                /\ stored[1].docs[k].content = invoices[Completed[k]]
                /\ stored[1].docs[k].analysis_result = OwnDecision(Completed[k])
    /\ (Returned /\ invoices # << >> /\ Completed = << >>)
       => /\ stored = << >>
          /\ response.status = "success"
          /\ \A k \in 1..Len(response.results) : response.results[k].status = "Declined"

\* the status the parsed output of document i carries after the required fields
\* were filled
GeneratedStatus(i) ==
    IF "status" \in DOMAIN generated[i].body THEN generated[i].body.status
    ELSE "Not specified"

Records == invoice_documents \o (IF stored = << >> THEN << >> ELSE stored[1].docs)

\* C29: every decision of a batch, and the decision inside every record handed to
\* the storage collaborator, has a status of the enumeration, in both policy
\* modes; a document whose generated status is any other value gets the Declined
\* failure decision and no record
C29_StatusInEnumeration ==
    /\ \A k \in 1..Len(analysis_results) :
          analysis_results[k].status \in
              {"Fully Reimbursed", "Partially Reimbursed", "Declined"}
    /\ \A k \in 1..Len(response.results) :
          response.results[k].status \in
              {"Fully Reimbursed", "Partially Reimbursed", "Declined"}
    /\ \A k \in 1..Len(Records) :
          Records[k].analysis_result.status \in
              {"Fully Reimbursed", "Partially Reimbursed", "Declined"}
    /\ \A i \in 1..Len(failures) :
          (/\ CustomMode
           /\ generated[i].kind = "object"
           /\ GeneratedStatus(i) \notin
                  {"Fully Reimbursed", "Partially Reimbursed", "Declined"})
          => /\ \A k \in 1..Len(analysis_results) :
                   analysis_results[k].invoice_id = i
                   => /\ analysis_results[k].status = "Declined"
                      /\ analysis_results[k].reason.template = "Analysis failed: {e}"
             /\ \E k \in 1..Len(analysis_results) : analysis_results[k].invoice_id = i
             /\ \A k \in 1..Len(Records) : Records[k].invoice_id # i

\* a batch whose first document came back with a status outside the enumeration
\* and whose second document was stored
C29_Witness ==
    /\ Returned
    /\ response.status = "success"
    /\ CustomMode
    /\ Len(invoices) = 2
    /\ generated[1].kind = "object"
    /\ GeneratedStatus(1) = "Approved"
    /\ stored # << >>
    /\ stored[1].docs[1].invoice_id = 2

(***************************************************************************)
(* Further properties of the policy service (checked under SpecPolicy)     *)
(***************************************************************************)
\* the category labels and sections the policy states
StatedLabel == [food_beverages  |-> "Food and Beverages",
                travel_expenses |-> "Travel Expenses",
                cab             |-> "Cab Expenses",
                daily_cab       |-> "Daily Office Cab",
                accommodation   |-> "Accommodation"]

StatedSection == [food_beverages  |-> "5.1 Food and Beverages",
                  travel_expenses |-> "5.2 Travel Expenses",
                  cab             |-> "5.2 Travel Expenses",
                  daily_cab       |-> "5.2 Travel Expenses",
                  accommodation   |-> "5.3 Accommodation"]

\* the reason interpolates the rule's category label and its limit
NamesLabelAndLimit(reason, cat) ==
    /\ reason.label = StatedLabel[cat]
    /\ reason.limit = <<StatedLimit[cat]>>

ValidatedForRule == ppc = "validated" /\ category \in DOMAIN StatedLimit

\* C25 as stated: for a category of the rule set, the reason of every decision
\* of validate_against_policy (Fully Reimbursed, Partially Reimbursed and the
\* restriction Declined) names the rule's category label and its limit, and the
\* policy_reference is the rule's policy_section
C25_EveryReasonNamesLabelAndLimit ==
    ValidatedForRule =>
        /\ NamesLabelAndLimit(result.reason, category)
        /\ result.policy_reference = StatedSection[category]

\* C25 amended: for a category of the rule set, the policy_reference of every
\* decision of validate_against_policy is the rule's policy_section; the reason
\* of a Fully Reimbursed or Partially Reimbursed decision names the rule's
\* category label and its limit, and the reason of the restriction Declined
\* decision is the fixed sentence about alcoholic beverages, which names neither
C25_ReimbursedReasonsNameLabelAndLimit ==
    ValidatedForRule =>
        /\ result.policy_reference = StatedSection[category]
        /\ result.status \in {"Fully Reimbursed", "Partially Reimbursed"}
           => NamesLabelAndLimit(result.reason, category)
        /\ result.status = "Declined"
           => /\ MentionsAlcohol(text)
              /\ result.reason =
                     [template |-> "Alcoholic beverages are not reimbursable according to policy",
                      amount |-> << >>, limit |-> << >>, label |-> "", error |-> ""]

\* a food invoice that mentions beer was declined under section 5.1
C25_Witness ==
    /\ ValidatedForRule
    /\ category = "food_beverages"
    /\ result.status = "Declined"
    /\ result.policy_reference = "5.1 Food and Beverages"
    /\ result.reason.limit = << >>

(***************************************************************************)
(* Further properties of vector_search and process_chat_query (checked     *)
(* under SpecChat)                                                         *)
(***************************************************************************)
BothSearchesFailed == CalledWith("vector_search", TRUE) /\ CalledWith("text_search", TRUE)

\* C30: when the vector search raises and the fallback scan raises too,
\* vector_search returns the empty list; process_chat_query then returns the
\* fixed no-information response with no sources and confidence 0.0 without
\* calling the generation capability; a vector search that succeeds with zero
\* rows does not call the scan
C30_DoubleFailureIsNoHits ==
    /\ (SearchReturned /\ BothSearchesFailed) => search_results = << >>
    /\ (ChatReturned /\ BothSearchesFailed)
       => /\ chat_result =
                 [response |-> "I couldn't find any relevant invoice analyses to answer your query.",
                  sources |-> << >>,
                  confidence_score |-> 0]
          /\ ~Called("generate")
    /\ (SearchReturned /\ CalledWith("vector_search", FALSE) /\ search_results = << >>)
       => ~Called("text_search")

\* a chat query over a non-empty collection whose two searches both raised
C30_Witness ==
    /\ ChatReturned
    /\ call.entry = "process_chat_query"
    /\ BothSearchesFailed
    /\ collection # << >>
    /\ chat_result.sources = << >>

====
